---- MODULE Spec2Model ----
(***************************************************************************)
(* Voice service of epic-ai: the telephony manager (livekit_telephony.py), *)
(* its HTTP endpoints (main.py) and the sync/async bridge run_async with   *)
(* the endpoints routed through it (livekit_manager.py).                   *)
(*                                                                         *)
(* Python values.  A str is a sequence of pieces ("outbound-" + call_id is *)
(* <<"outbound-">> \o call_id), a list is a sequence, a dict is a function *)
(* on its keys, and None is the sentinel below.                            *)
(***************************************************************************)
EXTENDS Integers, Sequences, FiniteSets, TLC

VARIABLES
    livekit_url, livekit_api_key, livekit_api_secret, \* the three credentials
    pc,           \* request thread -> "idle" | "await" | "waiting" | "done"
    req,          \* request thread -> the request it handles: [op, data]
    call_id,      \* create_outbound_call's local call_id
    room_name,    \* create_outbound_call's local room_name
    inflight,     \* thread -> remote capabilities sent and not yet answered
    spy,          \* thread -> the remote capabilities its invocation invoked, in order
    lkapi,        \* thread -> client handle of its invocation: "none" | "open" | "closed"
    result,       \* thread -> the envelope the manager operation returned
    status,       \* thread -> HTTP status of the response (0: none yet)
    response,     \* thread -> JSON body of the response
    e,            \* thread -> the exception its manager operation caught (`except Exception as e`)
    rooms, dispatches, participants, \* the platform: rooms, agent bindings, SIP participants
    sip_trunks, sip_rules, next_id,  \* the platform: trunks, dispatch rules, id counter
    queue,        \* _executor's work queue (submitting threads, FIFO)
    future,       \* thread -> its submitted work item: "none" | "pending" | "running" | "finished"
    outcome,      \* thread -> what its finished work item produced
    processes     \* agent directory -> number of running processes of its main.py

env_vars      == <<livekit_url, livekit_api_key, livekit_api_secret>>
thread_vars   == <<pc, req, call_id, room_name, inflight, spy, lkapi, result, status,
                   response, e>>
platform_vars == <<rooms, dispatches, participants, sip_trunks, sip_rules, next_id>>
bridge_vars   == <<queue, future, outcome>>
os_vars       == <<processes>>
vars          == <<env_vars, thread_vars, platform_vars, bridge_vars, os_vars>>

-----------------------------------------------------------------------------
(* Bounds and program constants *)

\* _executor = ThreadPoolExecutor(max_workers=4)
PoolSize == 4
\* concurrent requests beyond the pool's capacity
ExtraThreads == 1
\* requests handled in the specification Spec
MaxRequests == 2
\* ids the platform hands out
MaxIds == 2

Threads == 1..(PoolSize + ExtraThreads)

-----------------------------------------------------------------------------
(* Python values *)

None == <<"<None>">>
NoRecord == [none |-> TRUE]
\* `not x`: None, "" and [] are falsy
Falsy(x) == x = None \/ x = <<>>
\* dict.get(k)
Get(data, k) == IF k \in DOMAIN data THEN data[k] ELSE None
\* the dict without key k
Without(data, k) == [f \in DOMAIN data \ {k} |-> data[f]]

RECURSIVE Join(_, _)
\* sep.join(parts)
Join(parts, sep) ==
    IF parts = <<>> THEN <<>>
    ELSE IF Len(parts) = 1 THEN parts[1]
    ELSE parts[1] \o sep \o Join(Tail(parts), sep)

RECURSIVE Remove(_, _)
\* s.replace(ch, '')
Remove(s, ch) ==
    IF s = <<>> THEN <<>>
    ELSE IF Head(s) = ch THEN Remove(Tail(s), ch)
    ELSE <<Head(s)>> \o Remove(Tail(s), ch)

\* str(n) of a small number
Digits == <<"1", "2", "3", "4", "5", "6", "7", "8", "9">>

-----------------------------------------------------------------------------
(* Inputs *)

EnvValues == {<<>>, <<"set">>}
\* the faults the SIP and agent services, and the room service, answer with
Faults == {<<"unavailable">>, <<"not found">>}
RoomFaults == {<<"unavailable">>}
CallIds == {<<"a1b2c3d4">>, <<"e5f6a7b8">>}
Number1 == <<"+", "1", " ", "555", "-", "0100">>
Number2 == <<"+", "1", "666", "0199">>
ST0 == <<"ST_", "0">>
ST9 == <<"ST_", "9">>

CallBase ==
    [from_number |-> Number1, to_number |-> Number2, trunk_id |-> ST0,
     agent_name |-> <<"agent">>]
CallRequired == <<"from_number", "to_number", "trunk_id", "agent_name">>
CallBodies ==
    { CallBase,
      [CallBase EXCEPT !.agent_name = <<>>],
      [CallBase EXCEPT !.trunk_id = ST9],
      CallBase @@ [agent_config_id |-> <<"cfg7">>, organization_id |-> <<"org1">>] }
    \cup { Without(CallBase, CallRequired[i]) : i \in 1..4 }

\* an organization id, character by character (the trunk name takes its first 8)
Org1 == <<"o", "r", "g", "-", "1", "2", "3", "4", "5", "6">>
User1 == <<"user-1">>
Number3 == <<"+", "1", "777", "0123">>
SDR1 == <<"SDR_", "1">>
SDR9 == <<"SDR_", "9">>

InboundBodies ==
    { <<>>,
      [phone_numbers |-> <<>>],
      [phone_numbers |-> <<Number1>>],
      [phone_numbers |-> <<Number2, Number1>>, user_id |-> User1, organization_id |-> Org1] }
OutboundRequired == <<"username", "password", "sip_domain", "phone_numbers">>
OutboundBase ==
    [username |-> <<"magnus">>, password |-> <<"pw">>, sip_domain |-> <<"sip.example.com">>,
     phone_numbers |-> <<Number1>>]
OutboundBodies ==
    { OutboundBase,
      [OutboundBase EXCEPT !.phone_numbers = <<>>],
      OutboundBase @@ [organization_id |-> Org1, port |-> <<"5080">>],
      Without(OutboundBase, "phone_numbers"),
      <<>> }
RuleBodies ==
    { <<>>,
      [agent_name |-> <<"agent">>],
      [agent_name |-> <<"agent">>, phone_numbers |-> <<Number1>>],
      [agent_name |-> <<"agent">>, phone_numbers |-> <<Number1, Number2, Number3>>,
       trunk_ids |-> <<ST0>>, user_id |-> User1, organization_id |-> Org1] }
TrunkIdInputs == {ST0, ST9}
RuleIdInputs == {SDR1, SDR9}

-----------------------------------------------------------------------------
(* The platform *)

TrunkIdsOf(kind) ==
    { sip_trunks[i].sip_trunk_id : i \in { j \in 1..Len(sip_trunks) : sip_trunks[j].kind = kind } }
NewId(prefix) == <<prefix, Digits[next_id]>>

-----------------------------------------------------------------------------
(* livekit_telephony.py: LiveKitTelephonyManager *)

NotConfigured == [success |-> FALSE, error |-> <<"LiveKit credentials not configured">>]

\* the secret is not looked at
_check_credentials_two ==
    IF Falsy(livekit_url) \/ Falsy(livekit_api_key)
    THEN NotConfigured
    ELSE NoRecord

_check_credentials ==
    IF ~(~Falsy(livekit_url) /\ ~Falsy(livekit_api_key) /\ ~Falsy(livekit_api_secret))
    THEN NotConfigured
    ELSE NoRecord

\* the status does not look at result['success']
StatusOfIgnoresResult(op, res) ==
    IF op \in {"create_inbound_trunk", "create_outbound_trunk", "create_dispatch_rule",
               "make_outbound_call"}
    THEN 201 ELSE 200

\* `201 if result['success'] else 500` and `200 if result['success'] else 500`
StatusOf(op, res) ==
    IF ~res.success THEN 500
    ELSE IF op \in {"create_inbound_trunk", "create_outbound_trunk", "create_dispatch_rule",
                    "make_outbound_call"}
    THEN 201 ELSE 200

\* rejecting a request forgets the secret
RejectForgetsSecret(t, op, data, msg) ==
    /\ req' = [req EXCEPT ![t] = [op |-> op, data |-> data]]
    /\ pc' = [pc EXCEPT ![t] = "done"]
    /\ status' = [status EXCEPT ![t] = 400]
    /\ response' = [response EXCEPT ![t] = [error |-> msg]]
    /\ livekit_api_secret' = <<>>
    /\ UNCHANGED <<livekit_url, livekit_api_key, processes, call_id, room_name, e,
                   inflight, spy,
                   lkapi, result, platform_vars, bridge_vars>>

\* The handler answers without calling the manager: `return jsonify({"error": ...}), 400`
Reject(t, op, data, msg) ==
    /\ req' = [req EXCEPT ![t] = [op |-> op, data |-> data]]
    /\ pc' = [pc EXCEPT ![t] = "done"]
    /\ status' = [status EXCEPT ![t] = 400]
    /\ response' = [response EXCEPT ![t] = [error |-> msg]]
    /\ UNCHANGED <<env_vars, processes, call_id, room_name, e, inflight, spy, lkapi, result,
                   platform_vars, bridge_vars>>

\* The manager operation returns the credential error before a client exists; the
\* handler answers with it.
Gate(t, op, data, res) ==
    /\ req' = [req EXCEPT ![t] = [op |-> op, data |-> data]]
    /\ pc' = [pc EXCEPT ![t] = "done"]
    /\ result' = [result EXCEPT ![t] = res]
    /\ status' = [status EXCEPT ![t] = StatusOf(op, res)]
    /\ response' = [response EXCEPT ![t] = res]
    /\ UNCHANGED <<env_vars, processes, call_id, room_name, e, inflight, spy, lkapi,
                   platform_vars, bridge_vars>>

\* The call-spy's entry for a capability just invoked, and the entry answered
Invoked(cap) == [cap |-> cap, reply |-> "none"]
Answered(log, cap, reply) ==
    [i \in DOMAIN log |->
        IF log[i].cap = cap /\ log[i].reply = "none"
        THEN [cap |-> cap, reply |-> reply] ELSE log[i]]

\* `lkapi = api.LiveKitAPI()` and the first `await lkapi.<capability>(request)`
Open(t, op, data, cap) ==
    /\ req' = [req EXCEPT ![t] = [op |-> op, data |-> data]]
    /\ pc' = [pc EXCEPT ![t] = "await"]
    /\ lkapi' = [lkapi EXCEPT ![t] = "open"]
    /\ inflight' = [inflight EXCEPT ![t] = @ \cup {cap}]
    /\ spy' = [spy EXCEPT ![t] = Append(@, Invoked(cap))]
    /\ UNCHANGED <<env_vars, processes, result, status, response, platform_vars, bridge_vars>>

\* The await of capability done returned; the next `await lkapi.<capability>(request)`
Send(t, done, cap) ==
    /\ inflight' = [inflight EXCEPT ![t] = (@ \ {done}) \cup {cap}]
    /\ spy' = [spy EXCEPT ![t] = Append(Answered(@, done, "ok"), Invoked(cap))]
    /\ UNCHANGED <<env_vars, processes, pc, req, call_id, room_name, e, lkapi, result, status, response,
                   bridge_vars>>

\* The await of capability cap ended with reply ("ok" or "fault"): `return {...}`, then
\* `finally: await lkapi.aclose()`; the handler answers with the envelope.
Envelope(t, cap, reply, res) ==
    /\ pc' = [pc EXCEPT ![t] = "done"]
    /\ inflight' = [inflight EXCEPT ![t] = @ \ {cap}]
    /\ spy' = [spy EXCEPT ![t] = Answered(@, cap, reply)]
    /\ lkapi' = [lkapi EXCEPT ![t] = "closed"]
    /\ result' = [result EXCEPT ![t] = res]
    /\ status' = [status EXCEPT ![t] = StatusOf(req[t].op, res)]
    /\ response' = [response EXCEPT ![t] = res]
    /\ UNCHANGED <<env_vars, processes, req, call_id, room_name, bridge_vars>>
\* The try block ran to its `return`: no exception was caught
Return(t, cap, reply, res) ==
    /\ UNCHANGED e
    /\ Envelope(t, cap, reply, res)

\* Capability cap raised the exception with message m: `except Exception as e` binds it
\* and returns the failure envelope res
Except(t, cap, m, res) ==
    /\ e' = [e EXCEPT ![t] = m]
    /\ Envelope(t, cap, "fault", res)

\* The server hands the next request to the next free thread
Arrives(t) ==
    /\ pc[t] = "idle"
    /\ \A u \in Threads : u < t => pc[u] # "idle"

\* The thread is blocked in the await of capability cap of operation op
Awaiting(t, op, cap) ==
    /\ pc[t] = "await"
    /\ req[t].op = op
    /\ cap \in inflight[t]

-----------------------------------------------------------------------------
(* create_outbound_call and its endpoint POST /api/telephony/call *)

\* only the first required field is looked for
MissingFieldFirstOnly(data, required) ==
    IF required[1] \notin DOMAIN data THEN <<required[1]>> ELSE None

\* the first required field that is `not in data`, or None
MissingField(data, required) ==
    LET missing == { i \in 1..Len(required) : required[i] \notin DOMAIN data }
    IN  IF missing = {} THEN None
        ELSE <<required[CHOOSE i \in missing : \A j \in missing : i <= j]>>

RoomName(id, agent_config_id) ==
    IF ~Falsy(agent_config_id)
    THEN <<"outbound-">> \o id \o <<"-">> \o agent_config_id
    ELSE <<"outbound-">> \o id

\* metadata = {}; the two optional ids are added when given;
\* `json.dumps(metadata) if metadata else ""`
DispatchMetadata(agent_config_id, organization_id) ==
    LET keys == (IF ~Falsy(agent_config_id) THEN {"agent_config_id"} ELSE {})
                \cup (IF ~Falsy(organization_id) THEN {"organization_id"} ELSE {})
        metadata == [k \in keys |-> IF k = "agent_config_id" THEN agent_config_id
                                    ELSE organization_id]
    IN  IF keys = {} THEN [text |-> <<>>] ELSE [json |-> metadata]

DispatchRequest(t) ==
    [agent_name |-> req[t].data.agent_name,
     room       |-> room_name[t],
     metadata   |-> DispatchMetadata(Get(req[t].data, "agent_config_id"),
                                     Get(req[t].data, "organization_id"))]

\* the participant is put into outbound-{call_id}, whatever the room is called
SIPParticipantRequestPlainRoom(t) ==
    [sip_trunk_id         |-> req[t].data.trunk_id,
     sip_call_to          |-> req[t].data.to_number,
     sip_number           |-> req[t].data.from_number,
     room_name            |-> <<"outbound-">> \o call_id[t],
     participant_identity |-> <<"caller-">> \o call_id[t],
     participant_name     |-> <<"Outbound Call to ">> \o req[t].data.to_number,
     play_ringtone        |-> TRUE]

SIPParticipantRequest(t) ==
    [sip_trunk_id         |-> req[t].data.trunk_id,
     sip_call_to          |-> req[t].data.to_number,
     sip_number           |-> req[t].data.from_number,
     room_name            |-> room_name[t],
     participant_identity |-> <<"caller-">> \o call_id[t],
     participant_name     |-> <<"Outbound Call to ">> \o req[t].data.to_number,
     play_ringtone        |-> TRUE]

CallGateFailure == _check_credentials @@ [room_name |-> None, call_id |-> None]

\* the except branch answers with a success envelope
CallFailureAsSuccess(t, m) ==
    [success |-> TRUE, room_name |-> room_name[t], call_id |-> call_id[t],
     participant_id |-> None, error |-> m]

CallFailure(t, m) ==
    [success |-> FALSE, room_name |-> None, call_id |-> None, error |-> m]

CallSuccess(t, pid) ==
    [success |-> TRUE, room_name |-> room_name[t], call_id |-> call_id[t],
     participant_id |-> pid, error |-> None]

\* The credential gate, the client, call_id, room_name and the create_room request
create_outbound_call(t, data, id) ==
    IF _check_credentials # NoRecord
    THEN /\ Gate(t, "make_outbound_call", data, CallGateFailure)
         /\ UNCHANGED <<call_id, room_name, e>>
    ELSE /\ Open(t, "make_outbound_call", data, "create_room")
         /\ UNCHANGED e
         /\ call_id' = [call_id EXCEPT ![t] = id]
         /\ room_name' = [room_name EXCEPT ![t] = RoomName(id, Get(data, "agent_config_id"))]

\* the except branch invokes the failed capability again
AbandonRetry(t, cap, m) ==
    /\ UNCHANGED platform_vars
    /\ e' = [e EXCEPT ![t] = m]
    /\ spy' = [spy EXCEPT ![t] = Append(Answered(@, cap, "fault"), Invoked(cap))]
    /\ UNCHANGED <<env_vars, processes, pc, req, call_id, room_name, inflight, lkapi, result, status,
                   response, bridge_vars>>

\* the except branch deletes the room and its agent bindings
AbandonWithRollback(t, cap, m) ==
    /\ rooms' = rooms \ {room_name[t]}
    /\ dispatches' = { d \in dispatches : d.room # room_name[t] }
    /\ UNCHANGED <<participants, sip_trunks, sip_rules, next_id>>
    /\ Except(t, cap, m, CallFailure(t, m))

\* `except Exception as e`: the fault of capability cap becomes the failure envelope;
\* nothing created so far is deleted
Abandon(t, cap, m) ==
    /\ UNCHANGED platform_vars
    /\ Except(t, cap, m, CallFailure(t, m))

\* the agent binding and the participant are requested together
AfterRoomGather(t) ==
    /\ inflight' = [inflight EXCEPT ![t] = {"create_dispatch", "create_sip_participant"}]
    /\ spy' = [spy EXCEPT ![t] = Answered(@, "create_room", "ok")
                                  \o <<Invoked("create_dispatch"),
                                        Invoked("create_sip_participant")>>]
    /\ UNCHANGED <<env_vars, processes, pc, req, call_id, room_name, e, lkapi, result, status, response,
                   bridge_vars>>

\* the agent binding is requested whatever agent_name is
AfterRoomAlwaysBinds(t) == Send(t, "create_room", "create_dispatch")

\* The step after create_room: the agent binding when agent_name is given
AfterRoom(t) ==
    IF ~Falsy(req[t].data.agent_name)
    THEN Send(t, "create_room", "create_dispatch")
    ELSE Send(t, "create_room", "create_sip_participant")

\* The handler: required fields, then the manager operation
make_outbound_call(t, data, id) ==
    /\ Arrives(t)
    /\ IF MissingField(data, CallRequired) # None
       THEN Reject(t, "make_outbound_call", data,
                   MissingField(data, CallRequired) \o <<" required">>)
       ELSE create_outbound_call(t, data, id)

\* `await lkapi.room.create_room(room_request)` is answered
create_room(t) ==
    /\ Awaiting(t, "make_outbound_call", "create_room")
    /\ \/ /\ rooms' = rooms \cup {room_name[t]}
          /\ UNCHANGED <<dispatches, participants, sip_trunks, sip_rules, next_id>>
          /\ AfterRoom(t)
       \/ \E m \in Faults : Abandon(t, "create_room", m)

\* a fault of the agent binding is swallowed and the participant is requested anyway
create_dispatch_swallows(t) ==
    /\ Awaiting(t, "make_outbound_call", "create_dispatch")
    /\ \/ /\ room_name[t] \in rooms
          /\ dispatches' = dispatches \cup {DispatchRequest(t)}
          /\ UNCHANGED <<rooms, participants, sip_trunks, sip_rules, next_id>>
          /\ Send(t, "create_dispatch", "create_sip_participant")
       \/ /\ UNCHANGED platform_vars
          /\ inflight' = [inflight EXCEPT ![t] = (@ \ {"create_dispatch"})
                                                   \cup {"create_sip_participant"}]
          /\ spy' = [spy EXCEPT ![t] = Append(Answered(@, "create_dispatch", "fault"),
                                              Invoked("create_sip_participant"))]
          /\ UNCHANGED <<env_vars, processes, pc, req, call_id, room_name, e, lkapi, result, status,
                         response, bridge_vars>>

\* `await lkapi.agent_dispatch.create_dispatch(dispatch_request)` is answered
create_dispatch(t) ==
    /\ Awaiting(t, "make_outbound_call", "create_dispatch")
    /\ \/ /\ room_name[t] \in rooms
          /\ dispatches' = dispatches \cup {DispatchRequest(t)}
          /\ UNCHANGED <<rooms, participants, sip_trunks, sip_rules, next_id>>
          /\ Send(t, "create_dispatch", "create_sip_participant")
       \/ \E m \in Faults : Abandon(t, "create_dispatch", m)

\* `await lkapi.sip.create_sip_participant(sip_request)` is answered
create_sip_participant(t) ==
    /\ Awaiting(t, "make_outbound_call", "create_sip_participant")
    /\ \/ /\ req[t].data.trunk_id \in TrunkIdsOf("outbound")
          /\ room_name[t] \in rooms
          /\ participants' = participants \cup
                {SIPParticipantRequest(t) @@ [participant_id |-> <<"PA_">> \o call_id[t]]}
          /\ UNCHANGED <<rooms, dispatches, sip_trunks, sip_rules, next_id>>
          /\ Return(t, "create_sip_participant", "ok",
                    CallSuccess(t, <<"PA_">> \o call_id[t]))
       \/ \E m \in Faults : Abandon(t, "create_sip_participant", m)

-----------------------------------------------------------------------------
(* Trunks: create_inbound_trunk, create_outbound_trunk, list_*, delete_inbound_trunk *)

\* `x or default`
Or(x, default) == IF Falsy(x) THEN default ELSE x
\* s[:n]
Prefix(s, n) == SubSeq(s, 1, IF Len(s) < n THEN Len(s) ELSE n)

\* only the first number is put into the trunk
InboundTrunkInfoFirstNumber(data) ==
    [name |-> <<"Inbound Trunk">>,
     numbers |-> <<data.phone_numbers[1]>>,
     krisp_enabled |-> TRUE,
     address |-> None,
     headers |-> [X_Platform |-> <<"Epic-AI">>,
                  X_User_ID |-> Or(Get(data, "user_id"), <<"unknown">>),
                  X_Org_ID |-> Or(Get(data, "organization_id"), <<"unknown">>)]]

InboundTrunkInfo(data) ==
    [name |-> IF ~Falsy(Get(data, "organization_id"))
              THEN <<"Org ">> \o Prefix(data.organization_id, 8) \o <<" Inbound">>
              ELSE <<"Inbound Trunk">>,
     numbers |-> data.phone_numbers,
     krisp_enabled |-> TRUE,
     address |-> None,
     headers |-> [X_Platform |-> <<"Epic-AI">>,
                  X_User_ID |-> Or(Get(data, "user_id"), <<"unknown">>),
                  X_Org_ID |-> Or(Get(data, "organization_id"), <<"unknown">>)]]

OutboundTrunkInfo(data) ==
    [name |-> IF ~Falsy(Get(data, "organization_id"))
              THEN <<"Org ">> \o Prefix(data.organization_id, 8) \o <<" Outbound - Magnus">>
              ELSE <<"Outbound Trunk - Magnus">>,
     numbers |-> data.phone_numbers,
     krisp_enabled |-> FALSE,
     address |-> data.sip_domain \o <<":">>
                 \o (IF "port" \in DOMAIN data THEN data.port ELSE <<"5060">>),
     headers |-> <<>>]

TrunkGateFailure == _check_credentials @@ [trunk_id |-> None]
\* the except branch looks into the message
TrunkFailureParsed(m) ==
    [success |-> FALSE, trunk_id |-> None,
     error |-> IF m = <<"not found">> THEN <<"trunk does not exist">> ELSE m]

TrunkFailure(m) == [success |-> FALSE, trunk_id |-> None, error |-> m]
TrunkSuccess(trunk) ==
    [success |-> TRUE, trunk_id |-> trunk.sip_trunk_id, numbers |-> trunk.numbers,
     error |-> None]

\* The manager operation up to its await: the credential gate, the client, the request
Operation(t, op, data, gate_failure, cap) ==
    /\ IF _check_credentials # NoRecord
       THEN Gate(t, op, data, gate_failure)
       ELSE Open(t, op, data, cap)
    /\ UNCHANGED <<call_id, room_name, e>>

\* only the presence of phone_numbers is looked at
create_inbound_trunk_presence(t, data) ==
    /\ Arrives(t)
    /\ IF "phone_numbers" \notin DOMAIN data
       THEN Reject(t, "create_inbound_trunk", data, <<"phone_numbers required">>)
       ELSE Operation(t, "create_inbound_trunk", data, TrunkGateFailure,
                      "create_sip_inbound_trunk")

\* POST /api/telephony/trunks/inbound
create_inbound_trunk(t, data) ==
    /\ Arrives(t)
    /\ IF Falsy(IF "phone_numbers" \in DOMAIN data THEN data.phone_numbers ELSE <<>>)
       THEN Reject(t, "create_inbound_trunk", data, <<"phone_numbers required">>)
       ELSE Operation(t, "create_inbound_trunk", data, TrunkGateFailure,
                      "create_sip_inbound_trunk")

\* POST /api/telephony/trunks/outbound
create_outbound_trunk(t, data) ==
    /\ Arrives(t)
    /\ IF MissingField(data, OutboundRequired) # None
       THEN Reject(t, "create_outbound_trunk", data,
                   MissingField(data, OutboundRequired) \o <<" required">>)
       ELSE Operation(t, "create_outbound_trunk", data, TrunkGateFailure,
                      "create_sip_outbound_trunk")

\* The platform stores the trunk under a new id and answers with it
StoreTrunk(t, cap, kind, info) ==
    LET trunk == info @@ [sip_trunk_id |-> NewId("ST_"), kind |-> kind]
    IN  /\ next_id <= MaxIds
        /\ sip_trunks' = Append(sip_trunks, trunk)
        /\ next_id' = next_id + 1
        /\ UNCHANGED <<rooms, dispatches, participants, sip_rules>>
        /\ Return(t, cap, "ok", TrunkSuccess(trunk))

\* `await lkapi.sip.create_sip_inbound_trunk(request)` is answered
create_sip_inbound_trunk(t) ==
    /\ Awaiting(t, "create_inbound_trunk", "create_sip_inbound_trunk")
    /\ \/ StoreTrunk(t, "create_sip_inbound_trunk", "inbound", InboundTrunkInfo(req[t].data))
       \/ \E m \in Faults :
            /\ UNCHANGED platform_vars
            /\ Except(t, "create_sip_inbound_trunk", m, TrunkFailure(m))

\* `await lkapi.sip.create_sip_outbound_trunk(request)` is answered
create_sip_outbound_trunk(t) ==
    /\ Awaiting(t, "create_outbound_trunk", "create_sip_outbound_trunk")
    /\ \/ StoreTrunk(t, "create_sip_outbound_trunk", "outbound", OutboundTrunkInfo(req[t].data))
       \/ \E m \in Faults :
            /\ UNCHANGED platform_vars
            /\ Except(t, "create_sip_outbound_trunk", m, TrunkFailure(m))

ListGateFailure == _check_credentials @@ [trunks |-> <<>>]
\* the except branch of a list operation drops the message
ListFailureNoError(m) == [success |-> FALSE, trunks |-> <<>>, error |-> None]

ListFailure(m) == [success |-> FALSE, trunks |-> <<>>, error |-> m]
\* the newest trunk is listed first
TrunksOfNewestFirst(kind) ==
    LET items == SelectSeq(sip_trunks, LAMBDA trunk : trunk.kind = kind)
    IN  [i \in 1..Len(items) |-> items[Len(items) + 1 - i]]

TrunksOf(kind) == SelectSeq(sip_trunks, LAMBDA trunk : trunk.kind = kind)

\* GET /api/telephony/trunks/inbound
list_inbound_trunks(t) ==
    /\ Arrives(t)
    /\ Operation(t, "list_inbound_trunks", <<>>, ListGateFailure, "list_sip_inbound_trunk")

\* GET /api/telephony/trunks/outbound
list_outbound_trunks(t) ==
    /\ Arrives(t)
    /\ Operation(t, "list_outbound_trunks", <<>>, ListGateFailure, "list_sip_outbound_trunk")

\* `await lkapi.sip.list_sip_inbound_trunk(request)` is answered
list_sip_inbound_trunk(t) ==
    /\ Awaiting(t, "list_inbound_trunks", "list_sip_inbound_trunk")
    /\ UNCHANGED platform_vars
    /\ \/ LET items == TrunksOf("inbound")
          IN  Return(t, "list_sip_inbound_trunk", "ok", [success |-> TRUE,
                         trunks |-> [i \in 1..Len(items) |->
                                       [trunk_id |-> items[i].sip_trunk_id,
                                        name |-> items[i].name,
                                        numbers |-> items[i].numbers,
                                        krisp_enabled |-> items[i].krisp_enabled]],
                         error |-> None])
       \/ \E m \in Faults : Except(t, "list_sip_inbound_trunk", m, ListFailure(m))

\* `await lkapi.sip.list_sip_outbound_trunk(request)` is answered
list_sip_outbound_trunk(t) ==
    /\ Awaiting(t, "list_outbound_trunks", "list_sip_outbound_trunk")
    /\ UNCHANGED platform_vars
    /\ \/ LET items == TrunksOf("outbound")
          IN  Return(t, "list_sip_outbound_trunk", "ok", [success |-> TRUE,
                         trunks |-> [i \in 1..Len(items) |->
                                       [trunk_id |-> items[i].sip_trunk_id,
                                        name |-> items[i].name,
                                        numbers |-> items[i].numbers,
                                        address |-> items[i].address]],
                         error |-> None])
       \/ \E m \in Faults : Except(t, "list_sip_outbound_trunk", m, ListFailure(m))

\* DELETE /api/telephony/trunks/<trunk_id>
delete_trunk(t, trunk_id) ==
    /\ Arrives(t)
    /\ Operation(t, "delete_trunk", [trunk_id |-> trunk_id], _check_credentials,
                 "delete_sip_trunk")

\* `await lkapi.sip.delete_sip_trunk(request)` is answered
delete_sip_trunk(t) ==
    /\ Awaiting(t, "delete_trunk", "delete_sip_trunk")
    /\ \/ /\ \E i \in 1..Len(sip_trunks) : sip_trunks[i].sip_trunk_id = req[t].data.trunk_id
          /\ sip_trunks' = SelectSeq(sip_trunks,
                              LAMBDA trunk : trunk.sip_trunk_id # req[t].data.trunk_id)
          /\ UNCHANGED <<rooms, dispatches, participants, sip_rules, next_id>>
          /\ Return(t, "delete_sip_trunk", "ok", [success |-> TRUE, error |-> None])
       \/ \E m \in Faults :
            /\ UNCHANGED platform_vars
            /\ Except(t, "delete_sip_trunk", m, [success |-> FALSE, error |-> m])

-----------------------------------------------------------------------------
(* Dispatch rules: create_dispatch_rule, list_dispatch_rules, delete_dispatch_rule *)

\* numbers_str of the rule's display name
NumbersStr(phone_numbers) ==
    IF Falsy(phone_numbers) THEN <<"All">>
    ELSE Join(Prefix(phone_numbers, 2), <<", ">>)
         \o (IF Len(phone_numbers) > 2 THEN <<" +", Digits[Len(phone_numbers) - 2]>>
             ELSE <<>>)

RuleName(agent_name, phone_numbers) ==
    <<"Agent: ">> \o agent_name \o <<" -> ">> \o NumbersStr(phone_numbers)

\* phone_number = phone_numbers[0] if phone_numbers else None
FirstNumber(phone_numbers) == IF Falsy(phone_numbers) THEN None ELSE phone_numbers[1]

\* the spaces are kept
PhoneDigitsKeepsSpaces(phone_number) ==
    IF Falsy(phone_number) THEN <<"unknown">>
    ELSE Remove(Remove(phone_number, "+"), "-")

PhoneDigits(phone_number) ==
    IF Falsy(phone_number) THEN <<"unknown">>
    ELSE Remove(Remove(Remove(phone_number, "+"), "-"), " ")

RoomPrefix(phone_numbers) ==
    <<"sip-">> \o PhoneDigits(FirstNumber(phone_numbers)) \o <<"__">>

DispatchRuleInfo(data) ==
    LET phone_numbers == Get(data, "phone_numbers")
        user_id == Get(data, "user_id")
        organization_id == Get(data, "organization_id")
        phone_number == FirstNumber(phone_numbers)
    IN  [rule |-> [room_prefix |-> RoomPrefix(phone_numbers)],
         name |-> RuleName(data.agent_name, phone_numbers),
         trunk_ids |-> Or(Get(data, "trunk_ids"), <<>>),
         hide_phone_number |-> FALSE,
         metadata |-> [json |-> [user_id |-> Or(user_id, <<"unknown">>),
                                 org_id |-> Or(organization_id, <<"unknown">>),
                                 agent |-> data.agent_name,
                                 phone_number |-> Or(phone_number, <<"unknown">>)]],
         attributes |-> [call_type |-> <<"inbound">>, platform |-> <<"epic-ai">>,
                         user_id |-> Or(user_id, <<"unknown">>)],
         room_config |->
            [agents |-> << [agent_name |-> data.agent_name,
                            metadata |-> [json |->
                               [source |-> <<"inbound_call">>,
                                user_id |-> Or(user_id, <<"unknown">>),
                                org_id |-> Or(organization_id, <<"unknown">>),
                                phone_number |-> Or(phone_number, <<"unknown">>)]]] >>]]

RuleGateFailure == _check_credentials @@ [rule_id |-> None]
RuleFailure(m) == [success |-> FALSE, rule_id |-> None, error |-> m]

\* POST /api/telephony/dispatch-rules
create_dispatch_rule(t, data) ==
    /\ Arrives(t)
    /\ IF "agent_name" \notin DOMAIN data
       THEN Reject(t, "create_dispatch_rule", data, <<"agent_name required">>)
       ELSE Operation(t, "create_dispatch_rule", data, RuleGateFailure,
                      "create_sip_dispatch_rule")

\* `await lkapi.sip.create_sip_dispatch_rule(request)` is answered
create_sip_dispatch_rule(t) ==
    /\ Awaiting(t, "create_dispatch_rule", "create_sip_dispatch_rule")
    /\ \/ /\ next_id <= MaxIds
          /\ sip_rules' = Append(sip_rules, DispatchRuleInfo(req[t].data)
                                            @@ [sip_dispatch_rule_id |-> NewId("SDR_")])
          /\ next_id' = next_id + 1
          /\ UNCHANGED <<rooms, dispatches, participants, sip_trunks>>
          /\ Return(t, "create_sip_dispatch_rule", "ok",
                    [success |-> TRUE, rule_id |-> NewId("SDR_"), error |-> None])
       \/ \E m \in Faults :
            /\ UNCHANGED platform_vars
            /\ Except(t, "create_sip_dispatch_rule", m, RuleFailure(m))

\* GET /api/telephony/dispatch-rules
list_dispatch_rules(t) ==
    /\ Arrives(t)
    /\ Operation(t, "list_dispatch_rules", <<>>, _check_credentials @@ [rules |-> <<>>],
                 "list_sip_dispatch_rule")

\* `await lkapi.sip.list_sip_dispatch_rule(request)` is answered
list_sip_dispatch_rule(t) ==
    /\ Awaiting(t, "list_dispatch_rules", "list_sip_dispatch_rule")
    /\ UNCHANGED platform_vars
    /\ \/ Return(t, "list_sip_dispatch_rule", "ok", [success |-> TRUE,
                     rules |-> [i \in 1..Len(sip_rules) |->
                                  [rule_id |-> sip_rules[i].sip_dispatch_rule_id,
                                   name |-> sip_rules[i].name,
                                   trunk_ids |-> sip_rules[i].trunk_ids]],
                     error |-> None])
       \/ \E m \in Faults :
            Except(t, "list_sip_dispatch_rule", m, [success |-> FALSE, rules |-> <<>>, error |-> m])

\* DELETE /api/telephony/dispatch-rules/<rule_id>
delete_dispatch_rule(t, rule_id) ==
    /\ Arrives(t)
    /\ Operation(t, "delete_dispatch_rule", [rule_id |-> rule_id], _check_credentials,
                 "delete_sip_dispatch_rule")

\* `await lkapi.sip.delete_sip_dispatch_rule(request)` is answered
delete_sip_dispatch_rule(t) ==
    /\ Awaiting(t, "delete_dispatch_rule", "delete_sip_dispatch_rule")
    /\ \/ /\ \E i \in 1..Len(sip_rules) :
                sip_rules[i].sip_dispatch_rule_id = req[t].data.rule_id
          /\ sip_rules' = SelectSeq(sip_rules,
                             LAMBDA r : r.sip_dispatch_rule_id # req[t].data.rule_id)
          /\ UNCHANGED <<rooms, dispatches, participants, sip_trunks, next_id>>
          /\ Return(t, "delete_sip_dispatch_rule", "ok", [success |-> TRUE, error |-> None])
       \/ \E m \in Faults :
            /\ UNCHANGED platform_vars
            /\ Except(t, "delete_sip_dispatch_rule", m, [success |-> FALSE, error |-> m])

-----------------------------------------------------------------------------
(* livekit_manager.py: run_async and the endpoints routed through it *)

\* get_livekit_api(): the SDK is installed
api_module == TRUE

\* What a finished work item produced, and what run_async gives its caller
Returned(value) == [ok |-> TRUE, value |-> value]
Raised(kind, m) == [ok |-> FALSE, raised |-> kind, error |-> m]
\* future.result(timeout=30) raises TimeoutError, whose str() is empty
TimedOut == Raised("TimeoutError", <<>>)

Running == { t \in Threads : future[t] = "running" }

\* future = _executor.submit(_run); the caller then blocks in future.result(timeout=30)
run_async(t, op, coro, data) ==
    /\ req' = [req EXCEPT ![t] = [op |-> op, coro |-> coro, data |-> data]]
    /\ pc' = [pc EXCEPT ![t] = "waiting"]
    /\ queue' = Append(queue, t)
    /\ future' = [future EXCEPT ![t] = "pending"]
    /\ UNCHANGED <<env_vars, processes, call_id, room_name, e, inflight, spy, lkapi, result, status,
                   response, platform_vars, outcome>>

\* The handler answers without submitting anything
Answer(t, op, code, body) ==
    /\ req' = [req EXCEPT ![t] = [op |-> op, coro |-> "none", data |-> <<>>]]
    /\ pc' = [pc EXCEPT ![t] = "done"]
    /\ status' = [status EXCEPT ![t] = code]
    /\ response' = [response EXCEPT ![t] = body]
    /\ UNCHANGED <<env_vars, processes, call_id, room_name, e, inflight, spy, lkapi, result,
                   platform_vars, bridge_vars>>

ConfigBody(state) ==
    [url |-> livekit_url,
     api_key |-> IF ~Falsy(livekit_api_key) THEN Prefix(livekit_api_key, 10) \o <<"...">>
                 ELSE None,
     status |-> state]

\* GET /api/livekit/config
get_livekit_config(t) ==
    /\ Arrives(t)
    /\ IF api_module /\ ~Falsy(livekit_url) /\ ~Falsy(livekit_api_key)
       THEN run_async(t, "get_livekit_config", "test_livekit_connection_async", <<>>)
       ELSE Answer(t, "get_livekit_config", 200, ConfigBody(<<"not_configured">>))

\* GET /api/livekit/rooms
list_rooms(t) ==
    /\ Arrives(t)
    /\ IF ~api_module
       THEN Answer(t, "list_rooms", 500, [error |-> <<"LiveKit SDK not installed">>])
       ELSE run_async(t, "list_rooms", "list_livekit_rooms_async", <<>>)

\* GET /api/livekit/rooms/<room_name>/participants
get_room_participants(t, room) ==
    /\ Arrives(t)
    /\ IF ~api_module
       THEN Answer(t, "get_room_participants", 500, [error |-> <<"LiveKit SDK not installed">>])
       ELSE run_async(t, "get_room_participants", "get_room_participants_async",
                      [room_name |-> room])

\* The capability a coroutine awaits
CapabilityOf(coro) ==
    IF coro = "get_room_participants_async" THEN "list_participants" ELSE "list_rooms"

\* the executor starts a thread for every work item
SlotAlwaysFree == TRUE

\* A worker of the pool is free
SlotFree == Cardinality(Running) < PoolSize

\* a worker drops a work item whose caller has already been answered
_run_skips_abandoned(t) ==
    /\ queue # <<>>
    /\ Head(queue) = t
    /\ SlotFree
    /\ queue' = Tail(queue)
    /\ IF pc[t] = "done"
       THEN /\ future' = [future EXCEPT ![t] = "finished"]
            /\ outcome' = [outcome EXCEPT ![t] = Raised("CancelledError", <<>>)]
            /\ UNCHANGED <<lkapi, inflight, spy>>
       ELSE /\ future' = [future EXCEPT ![t] = "running"]
            /\ lkapi' = [lkapi EXCEPT ![t] = "open"]
            /\ inflight' = [inflight EXCEPT ![t] = @ \cup {CapabilityOf(req[t].coro)}]
            /\ spy' = [spy EXCEPT ![t] = Append(@, Invoked(CapabilityOf(req[t].coro)))]
            /\ UNCHANGED outcome
    /\ UNCHANGED <<env_vars, processes, pc, req, call_id, room_name, e, result, status, response,
                   platform_vars>>

\* A worker takes the oldest work item and runs it: asyncio.run(coro) builds the client
\* and sends the coroutine's request
_run(t) ==
    /\ queue # <<>>
    /\ Head(queue) = t
    /\ SlotFree
    /\ queue' = Tail(queue)
    /\ future' = [future EXCEPT ![t] = "running"]
    /\ lkapi' = [lkapi EXCEPT ![t] = "open"]
    /\ inflight' = [inflight EXCEPT ![t] = @ \cup {CapabilityOf(req[t].coro)}]
    /\ spy' = [spy EXCEPT ![t] = Append(@, Invoked(CapabilityOf(req[t].coro)))]
    /\ UNCHANGED <<env_vars, processes, pc, req, call_id, room_name, e, result, status, response,
                   platform_vars, outcome>>

\* A pool worker starts the work item at the head of the queue while a credential is
\* empty and `api.LiveKitAPI(http_url, LIVEKIT_API_KEY, LIVEKIT_API_SECRET)` raises:
\* whether the SDK's constructor accepts an empty value is not decided in this
\* repository, so this outcome stands next to the one of _run
LiveKitAPI_refuses(t) ==
    /\ queue # <<>>
    /\ Head(queue) = t
    /\ SlotFree
    /\ Falsy(livekit_url) \/ Falsy(livekit_api_key) \/ Falsy(livekit_api_secret)
    /\ queue' = Tail(queue)
    /\ future' = [future EXCEPT ![t] = "finished"]
    /\ outcome' = [outcome EXCEPT ![t] = Raised("ValueError", <<"credentials must be set">>)]
    /\ UNCHANGED <<env_vars, processes, thread_vars, platform_vars>>

\* the worker does not give its slot back when the coroutine ends
FinishKeepsSlot(t, cap, reply, produced) ==
    /\ future[t] = "running"
    /\ cap \in inflight[t]
    /\ inflight' = [inflight EXCEPT ![t] = @ \ {cap}]
    /\ spy' = [spy EXCEPT ![t] = Answered(@, cap, reply)]
    /\ lkapi' = [lkapi EXCEPT ![t] = "closed"]
    /\ outcome' = [outcome EXCEPT ![t] = produced]
    /\ UNCHANGED <<env_vars, processes, pc, req, call_id, room_name, e, result, status, response,
                   platform_vars, queue, future>>

\* The coroutine's await ended: `finally: await lk_api.aclose()`, asyncio.run returns
\* and the future is finished with what the coroutine produced
Finish(t, cap, reply, produced) ==
    /\ future[t] = "running"
    /\ cap \in inflight[t]
    /\ inflight' = [inflight EXCEPT ![t] = @ \ {cap}]
    /\ spy' = [spy EXCEPT ![t] = Answered(@, cap, reply)]
    /\ lkapi' = [lkapi EXCEPT ![t] = "closed"]
    /\ future' = [future EXCEPT ![t] = "finished"]
    /\ outcome' = [outcome EXCEPT ![t] = produced]
    /\ UNCHANGED <<env_vars, processes, pc, req, call_id, room_name, e, result, status, response,
                   platform_vars, queue>>

\* `await lk_api.room.list_rooms(request)` of the connection test is answered
test_livekit_connection_async(t) ==
    /\ req[t].op = "get_livekit_config"
    /\ \/ Finish(t, "list_rooms", "ok", Returned([connected |-> TRUE]))
       \/ \E m \in RoomFaults : Finish(t, "list_rooms", "fault", Raised("Exception", m))

\* `await lk_api.room.list_rooms(request)` is answered
list_livekit_rooms_async(t) ==
    /\ req[t].op = "list_rooms"
    /\ \/ Finish(t, "list_rooms", "ok", Returned([rooms |-> rooms]))
       \/ \E m \in RoomFaults : Finish(t, "list_rooms", "fault", Raised("Exception", m))

\* `await lk_api.room.list_participants(request)` is answered
get_room_participants_async(t) ==
    /\ req[t].op = "get_room_participants"
    /\ \/ Finish(t, "list_participants", "ok",
                 Returned([participants |->
                             { p \in participants : p.room_name = req[t].data.room_name }]))
       \/ \E m \in RoomFaults : Finish(t, "list_participants", "fault", Raised("Exception", m))

\* What the handler answers once run_async returned or raised
HandlerStatus(op, got) ==
    IF op = "get_livekit_config" \/ got.ok THEN 200 ELSE 500
HandlerBody(op, got) ==
    IF op = "get_livekit_config"
    THEN ConfigBody(IF got.ok THEN <<"connected">> ELSE <<"error">>)
    ELSE IF got.ok
    THEN IF op = "list_rooms" THEN [rooms |-> got.value.rooms]
         ELSE [participants |-> got.value.participants]
    ELSE [error |-> IF op = "list_rooms" THEN <<"Failed to list rooms">>
                    ELSE <<"Failed to get room participants">>,
          details |-> got.error]

\* run_async ends for its caller with got, and the handler answers
Resume(t, got) ==
    /\ pc[t] = "waiting"
    /\ pc' = [pc EXCEPT ![t] = "done"]
    /\ result' = [result EXCEPT ![t] = got]
    /\ status' = [status EXCEPT ![t] = HandlerStatus(req[t].op, got)]
    /\ response' = [response EXCEPT ![t] = HandlerBody(req[t].op, got)]
    /\ UNCHANGED <<env_vars, processes, req, call_id, room_name, e, inflight, spy, lkapi,
                   platform_vars, bridge_vars>>

\* future.result(timeout=30): the work item finished in time
future_result(t) ==
    /\ future[t] = "finished"
    /\ Resume(t, outcome[t])

\* the deadline runs from the start of the work item
future_timeout_once_running(t) ==
    /\ future[t] = "running"
    /\ Resume(t, TimedOut)

\* the timeout cancels the work item: it leaves the queue or gives up its slot
future_timeout_cancels(t) ==
    /\ future[t] \in {"pending", "running"}
    /\ pc[t] = "waiting"
    /\ pc' = [pc EXCEPT ![t] = "done"]
    /\ result' = [result EXCEPT ![t] = TimedOut]
    /\ status' = [status EXCEPT ![t] = HandlerStatus(req[t].op, TimedOut)]
    /\ response' = [response EXCEPT ![t] = HandlerBody(req[t].op, TimedOut)]
    /\ future' = [future EXCEPT ![t] = "cancelled"]
    /\ queue' = SelectSeq(queue, LAMBDA u : u # t)
    /\ inflight' = [inflight EXCEPT ![t] = {}]
    /\ lkapi' = [lkapi EXCEPT ![t] = IF @ = "open" THEN "closed" ELSE @]
    /\ UNCHANGED <<env_vars, processes, req, call_id, room_name, e, spy, platform_vars, outcome>>

\* future.result(timeout=30): 30 s passed and the work item has not finished; the
\* caller gets TimeoutError and the work item is left as it is
future_timeout(t) ==
    /\ future[t] \in {"pending", "running"}
    /\ Resume(t, TimedOut)

-----------------------------------------------------------------------------
(* Local agents: start_agent, stop_agent *)

Sales == <<"sales">>
PreSales == <<"pre", "sales">>
Ghost == <<"ghost">>
\* The agent directories under AGENTS_DIR that hold a main.py, and the ids requested
AgentDirs == {Sales, PreSales}
AgentIds == AgentDirs \cup {Ghost}

\* The regular expression `python.*{agent_id}/main.py` finds the command line
\* `python3 <AGENTS_DIR>/<dir>/main.py dev` when dir ends with agent_id
Suffix(agent_id, dir) ==
    /\ Len(agent_id) <= Len(dir)
    /\ SubSeq(dir, Len(dir) - Len(agent_id) + 1, Len(dir)) = agent_id
\* subprocess.run(['pgrep', '-f', f'python.*{agent_id}/main.py'], ...): the agent
\* directories with a running process whose command line matches
pgrep(agent_id) == { dir \in AgentDirs : processes[dir] > 0 /\ Suffix(agent_id, dir) }

\* The handler of an agent endpoint answers
Respond(t, op, agent_id, code, body) ==
    /\ req' = [req EXCEPT ![t] = [op |-> op, data |-> [agent_id |-> agent_id]]]
    /\ pc' = [pc EXCEPT ![t] = "done"]
    /\ status' = [status EXCEPT ![t] = code]
    /\ response' = [response EXCEPT ![t] = body]
    /\ UNCHANGED <<env_vars, call_id, room_name, e, inflight, spy, lkapi, result,
                   platform_vars, bridge_vars>>

\* POST /api/livekit/agents/<agent_id>/start up to the end of the pgrep check
start_agent(t, agent_id) ==
    /\ Arrives(t)
    /\ UNCHANGED processes
    /\ IF agent_id \notin AgentDirs
       THEN Respond(t, "start_agent", agent_id, 404, [error |-> <<"Agent not found">>])
       ELSE IF pgrep(agent_id) # {}
       THEN Respond(t, "start_agent", agent_id, 400,
                    [error |-> <<"Agent already running">>])
       ELSE /\ req' = [req EXCEPT ![t] = [op |-> "start_agent",
                                          data |-> [agent_id |-> agent_id]]]
            /\ pc' = [pc EXCEPT ![t] = "checked"]
            /\ UNCHANGED <<env_vars, call_id, room_name, e, inflight, spy, lkapi, result,
                           status, response, platform_vars, bridge_vars>>

\* process = subprocess.Popen(cmd, ...) and the answer, or the exception of Popen or
\* of open(log_file, 'w')
Popen(t) ==
    /\ pc[t] = "checked"
    /\ req[t].op = "start_agent"
    /\ \/ /\ processes' = [processes EXCEPT ![req[t].data.agent_id] = @ + 1]
          /\ Respond(t, "start_agent", req[t].data.agent_id, 200,
                     [status |-> <<"started">>, agent_id |-> req[t].data.agent_id])
       \/ /\ UNCHANGED processes
          /\ Respond(t, "start_agent", req[t].data.agent_id, 500,
                     [error |-> <<"Failed to start agent">>])

\* POST /api/livekit/agents/<agent_id>/stop: `kill -15` for every pid pgrep printed;
\* a signalled process has ended by the time of the answer or ends later
stop_agent(t, agent_id) ==
    /\ Arrives(t)
    /\ IF pgrep(agent_id) = {}
       THEN /\ UNCHANGED processes
            /\ Respond(t, "stop_agent", agent_id, 404, [error |-> <<"Agent not running">>])
       ELSE /\ \/ processes' = [dir \in AgentDirs |->
                                  IF dir \in pgrep(agent_id) THEN 0 ELSE processes[dir]]
               \/ UNCHANGED processes
            /\ Respond(t, "stop_agent", agent_id, 200,
                       [status |-> <<"stopped">>, agent_id |-> agent_id])

\* An agent process ends
exits(dir) ==
    /\ processes[dir] > 0
    /\ processes' = [processes EXCEPT ![dir] = @ - 1]
    /\ UNCHANGED <<env_vars, thread_vars, platform_vars, bridge_vars>>

-----------------------------------------------------------------------------
(* Specifications *)

NoResult == [pending |-> TRUE]

Init ==
    /\ livekit_url \in EnvValues
    /\ livekit_api_key \in EnvValues
    /\ livekit_api_secret \in EnvValues
    /\ pc = [t \in Threads |-> "idle"]
    /\ req = [t \in Threads |-> [op |-> "none"]]
    /\ call_id = [t \in Threads |-> None]
    /\ room_name = [t \in Threads |-> None]
    /\ inflight = [t \in Threads |-> {}]
    /\ spy = [t \in Threads |-> <<>>]
    /\ lkapi = [t \in Threads |-> "none"]
    /\ result = [t \in Threads |-> NoResult]
    /\ status = [t \in Threads |-> 0]
    /\ response = [t \in Threads |-> NoResult]
    /\ e = [t \in Threads |-> None]
    /\ processes = [dir \in AgentDirs |-> 0]
    /\ rooms = {}
    /\ dispatches = {}
    /\ participants = {}
    /\ sip_trunks = << OutboundTrunkInfo(OutboundBase)
                        @@ [sip_trunk_id |-> ST0, kind |-> "outbound"] >>
    /\ sip_rules = <<>>
    /\ next_id = 1
    /\ queue = <<>>
    /\ future = [t \in Threads |-> "none"]
    /\ outcome = [t \in Threads |-> NoResult]

\* The outbound-call endpoint, with every request body
NextCall ==
    \E t \in 1..MaxRequests :
        \/ \E data \in CallBodies, id \in CallIds : make_outbound_call(t, data, id)
        \/ create_room(t)
        \/ create_dispatch(t)
        \/ create_sip_participant(t)

CallSpec == Init /\ [][NextCall]_vars

\* Every telephony endpoint
Next ==
    \E t \in 1..MaxRequests :
        \/ \E data \in {CallBase, <<>>}, id \in CallIds : make_outbound_call(t, data, id)
        \/ create_room(t)
        \/ create_dispatch(t)
        \/ create_sip_participant(t)
        \/ \E data \in InboundBodies : create_inbound_trunk(t, data)
        \/ create_sip_inbound_trunk(t)
        \/ \E data \in OutboundBodies : create_outbound_trunk(t, data)
        \/ create_sip_outbound_trunk(t)
        \/ list_inbound_trunks(t)
        \/ list_sip_inbound_trunk(t)
        \/ list_outbound_trunks(t)
        \/ list_sip_outbound_trunk(t)
        \/ \E trunk_id \in TrunkIdInputs : delete_trunk(t, trunk_id)
        \/ delete_sip_trunk(t)
        \/ \E data \in RuleBodies : create_dispatch_rule(t, data)
        \/ create_sip_dispatch_rule(t)
        \/ list_dispatch_rules(t)
        \/ list_sip_dispatch_rule(t)
        \/ \E rule_id \in RuleIdInputs : delete_dispatch_rule(t, rule_id)
        \/ delete_sip_dispatch_rule(t)

Spec == Init /\ [][Next]_vars

\* The i-th of the call ids of concurrent calls
LoadId(i) == <<"0000000", Digits[i]>>

\* Concurrent outbound calls, one per request thread
NextLoad ==
    \E t \in Threads :
        \/ make_outbound_call(t, CallBase, LoadId(t))
        \/ create_room(t)
        \/ create_dispatch(t)
        \/ create_sip_participant(t)

LoadSpec == Init /\ [][NextLoad]_vars

Configured ==
    ~Falsy(livekit_url) /\ ~Falsy(livekit_api_key) /\ ~Falsy(livekit_api_secret)

\* Concurrent requests through the bridge, one per request thread
NextBridge ==
    \E t \in Threads :
        \/ list_rooms(t)
        \/ _run(t)
        \/ list_livekit_rooms_async(t)
        \/ future_result(t)
        \/ future_timeout(t)

BridgeInit == Init /\ Configured

BridgeSpec == BridgeInit /\ [][NextBridge]_vars

\* The endpoints routed through the bridge
NextRooms ==
    \E t \in 1..MaxRequests :
        \/ get_livekit_config(t)
        \/ list_rooms(t)
        \/ \E room \in {RoomName(id, None) : id \in CallIds} : get_room_participants(t, room)
        \/ _run(t)
        \/ LiveKitAPI_refuses(t)
        \/ test_livekit_connection_async(t)
        \/ list_livekit_rooms_async(t)
        \/ get_room_participants_async(t)
        \/ future_result(t)
        \/ future_timeout(t)

RoomsSpec == Init /\ [][NextRooms]_vars

-----------------------------------------------------------------------------
(* Properties *)

IsCall(t) == req[t].op = "make_outbound_call"
\* The call-spy of thread t recorded capability cap answered with reply
Recorded(t, cap, reply) ==
    \E i \in DOMAIN spy[t] : spy[t][i] = [cap |-> cap, reply |-> reply]
CallOrder == <<"create_room", "create_dispatch", "create_sip_participant">>
Position(cap) == CHOOSE i \in 1..3 : CallOrder[i] = cap
SomeRequiredFieldMissing(data) ==
    \E f \in {"from_number", "to_number", "trunk_id", "agent_name"} : f \notin DOMAIN data

\* C1: with an empty endpoint, key or secret no invocation ever invokes a remote
\* capability or acquires a client handle, and every telephony-manager operation
\* that was called has returned the NotConfigured failure.
C1_NotConfiguredNoNetwork ==
    (Falsy(livekit_url) \/ Falsy(livekit_api_key) \/ Falsy(livekit_api_secret)) =>
        \A t \in Threads :
            /\ spy[t] = <<>>
            /\ inflight[t] = {}
            /\ lkapi[t] = "none"
            /\ (pc[t] = "done" /\ status[t] # 400) =>
                  /\ result[t] # NoResult
                  /\ ~result[t].success
                  /\ result[t].error = <<"LiveKit credentials not configured">>

\* Only the secret is empty and an outbound call came back NotConfigured
C1_Witness ==
    /\ ~Falsy(livekit_url) /\ ~Falsy(livekit_api_key) /\ Falsy(livekit_api_secret)
    /\ \E t \in Threads :
          /\ IsCall(t) /\ pc[t] = "done" /\ status[t] = 500
          /\ result[t].error = <<"LiveKit credentials not configured">>

\* C2: an outbound call returns Success, with room_name, call_id and participant_id,
\* exactly when the last capability it invoked is create_sip_participant answered
\* ok; if any step was answered with a fault the result is a Failure.
C2_SuccessOnlyAfterStep3 ==
    \A t \in Threads :
        (IsCall(t) /\ result[t] # NoResult) =>
            /\ result[t].success <=>
                  (spy[t] # <<>> /\ spy[t][Len(spy[t])] =
                        [cap |-> "create_sip_participant", reply |-> "ok"])
            /\ (\E i \in DOMAIN spy[t] : spy[t][i].reply = "fault") => ~result[t].success
            /\ result[t].success =>
                  /\ result[t].room_name = room_name[t]
                  /\ result[t].call_id = call_id[t]
                  /\ "participant_id" \in DOMAIN result[t]

\* An outbound call succeeded
C2_Witness ==
    \E t \in Threads :
        IsCall(t) /\ result[t] # NoResult /\ result[t].success
        /\ Recorded(t, "create_sip_participant", "ok")

\* C3: in one outbound call the capabilities are invoked in the order create_room,
\* create_dispatch, create_sip_participant, each only after the one before it was
\* answered ok, and at most one of them is in flight.
C3_StepsInOrder ==
    \A t \in Threads :
        IsCall(t) =>
            /\ Cardinality(inflight[t]) <= 1
            /\ inflight[t] = { spy[t][i].cap : i \in { j \in DOMAIN spy[t] :
                                                         spy[t][j].reply = "none" } }
            /\ \A i \in DOMAIN spy[t] :
                  /\ spy[t][i].cap \in {"create_room", "create_dispatch",
                                        "create_sip_participant"}
                  /\ i = 1 => spy[t][i].cap = "create_room"
                  /\ i < Len(spy[t]) =>
                        /\ spy[t][i].reply = "ok"
                        /\ Position(spy[t][i].cap) < Position(spy[t][i + 1].cap)

\* All three steps ran in one call
C3_Witness ==
    \E t \in Threads :
        /\ IsCall(t) /\ Len(spy[t]) = 3
        /\ \A i \in 1..3 : spy[t][i] = [cap |-> CallOrder[i], reply |-> "ok"]

\* C4: once create_room was answered ok the room exists on the platform in every
\* later state of the invocation, and so does the agent binding once create_dispatch
\* was answered ok, also after a later step failed; the call invokes no other
\* capability than the three steps.
C4_NoRollback ==
    \A t \in Threads :
        IsCall(t) =>
            /\ Recorded(t, "create_room", "ok") => room_name[t] \in rooms
            /\ Recorded(t, "create_dispatch", "ok") => DispatchRequest(t) \in dispatches
            /\ \A i \in DOMAIN spy[t] :
                  spy[t][i].cap \in {"create_room", "create_dispatch",
                                     "create_sip_participant"}

\* The call failed at the participant step; its room and binding are still there
C4_Witness ==
    \E t \in Threads :
        /\ IsCall(t) /\ pc[t] = "done"
        /\ Recorded(t, "create_sip_participant", "fault")
        /\ ~result[t].success
        /\ room_name[t] \in rooms
        /\ DispatchRequest(t) \in dispatches

\* C5: the Failure of an outbound call that failed after its room was created names
\* the failing step and carries the room's room_name.
C5_FailureNamesStepAndRoom ==
    \A t \in Threads :
        (IsCall(t) /\ result[t] # NoResult /\ ~result[t].success
         /\ Recorded(t, "create_room", "ok")) =>
            /\ "step" \in DOMAIN result[t]
            /\ result[t].room_name = room_name[t]

\* C6: an outbound-call request whose body lacks from_number, to_number, trunk_id
\* or agent_name is answered with status 400, the manager is not called, and no
\* capability is invoked, no client built and no room named for it.
C6_MissingFieldRejected ==
    \A t \in Threads :
        (IsCall(t) /\ SomeRequiredFieldMissing(req[t].data)) =>
            /\ pc[t] = "done"
            /\ status[t] = 400
            /\ result[t] = NoResult
            /\ spy[t] = <<>>
            /\ inflight[t] = {}
            /\ lkapi[t] = "none"
            /\ room_name[t] = None

\* Credentials are set and a body without agent_name was rejected
C6_Witness ==
    /\ Configured
    /\ \E t \in Threads :
          /\ IsCall(t) /\ status[t] = 400
          /\ DOMAIN req[t].data = {"from_number", "to_number", "trunk_id"}

\* C7: at most PoolSize work items submitted through run_async execute at any time;
\* every other submitted work item that has not finished is in the queue.
C7_PoolBound ==
    /\ Cardinality(Running) <= PoolSize
    /\ \A t \in Threads :
          future[t] = "pending" <=> (\E i \in DOMAIN queue : queue[i] = t)

\* Four work items execute and a fifth submission waits in the queue
C7_Witness ==
    /\ Cardinality(Running) = PoolSize
    /\ queue # <<>>
    /\ \E t \in Threads : future[t] = "pending" /\ pc[t] = "waiting"

\* C8: at most PoolSize telephony operations (outbound-call orchestrations among
\* them) are executing their remote calls at any time.
C8_OrchestrationsBoundedByPool ==
    Cardinality({ t \in Threads : pc[t] = "await" }) <= PoolSize

\* C9: an invocation blocked on a remote step can always be ended by its deadline:
\* the caller's wait can end with the Timeout failure.
C9_DeadlineEndsEveryWait ==
    \A t \in Threads :
        (pc[t] = "await" \/ (pc[t] = "waiting" /\ future[t] # "finished")) =>
            ENABLED future_timeout(t)

\* C10: the step in which a caller of run_async gets the Timeout failure leaves its
\* work item as it was (queued or running, its slot, client and request untouched);
\* a running work item leaves the running state only by finishing on its own.
C10_TimeoutDoesNotCancel ==
    [][ \A t \in Threads :
          /\ (pc[t] = "waiting" /\ pc'[t] = "done" /\ result'[t] = TimedOut) =>
                /\ future'[t] = future[t]
                /\ queue' = queue
                /\ Running' = Running
                /\ lkapi'[t] = lkapi[t]
                /\ inflight'[t] = inflight[t]
          /\ (future[t] = "running" /\ future'[t] # "running") =>
                /\ future'[t] = "finished"
                /\ inflight'[t] = {}
                /\ outcome'[t] # NoResult ]_vars

\* The caller was told Timeout and the platform then completed the operation
C10_Witness ==
    \E t \in Threads :
        /\ pc[t] = "done" /\ result[t] = TimedOut
        /\ future[t] = "finished" /\ outcome[t].ok
        /\ Recorded(t, "list_rooms", "ok")

\* C11: whenever an operation has returned to its caller - with success, with a
\* remote error or with a timeout - the client handle it acquired is released.
C11_HandleReleasedOnReturn ==
    \A t \in Threads : pc[t] = "done" => lkapi[t] # "open"

\* C12: within one invocation no remote capability is invoked twice: an outbound
\* call invokes at most its three steps once each, every other operation one request.
C12_NothingRetried ==
    \A t \in Threads :
        /\ \A i, j \in DOMAIN spy[t] : i # j => spy[t][i].cap # spy[t][j].cap
        /\ Len(spy[t]) <= (IF IsCall(t) THEN 3 ELSE 1)

\* An outbound call ended on the fault of its second step, each step invoked once
C12_Witness ==
    \E t \in Threads :
        /\ IsCall(t) /\ pc[t] = "done" /\ e[t] # None
        /\ Len(spy[t]) = 2
        /\ spy[t][2] = [cap |-> "create_dispatch", reply |-> "fault"]

-----------------------------------------------------------------------------
(* Faults of the client itself.  The specifications above take the client to be
   built and closed without a fault; FaultSpec adds the two places where the
   client can raise outside the try block of a manager operation. *)

\* `lkapi = api.LiveKitAPI()` stands before `try:`; an exception of the constructor
\* leaves the manager operation and the handler's own `except Exception as e` answers
LiveKitAPI_raises(t, op, data, m) ==
    /\ Arrives(t)
    /\ _check_credentials = NoRecord
    /\ req' = [req EXCEPT ![t] = [op |-> op, data |-> data]]
    /\ pc' = [pc EXCEPT ![t] = "done"]
    /\ result' = [result EXCEPT ![t] = Raised("Exception", m)]
    /\ status' = [status EXCEPT ![t] = 500]
    /\ response' = [response EXCEPT ![t] = [error |-> m]]
    /\ UNCHANGED <<env_vars, processes, call_id, room_name, e, inflight, spy, lkapi, platform_vars,
                   bridge_vars>>

\* The awaited capability raised m1 and the except branch built its envelope; then
\* `finally: await lkapi.aclose()` raises m: the exception replaces the envelope, and
\* whether the client's session got closed is not known
aclose_raises(t, m1, m) ==
    /\ pc[t] = "await"
    /\ \E cap \in inflight[t] :
          /\ inflight' = [inflight EXCEPT ![t] = @ \ {cap}]
          /\ spy' = [spy EXCEPT ![t] = Answered(@, cap, "fault")]
    /\ e' = [e EXCEPT ![t] = m1]
    /\ lkapi' \in { [lkapi EXCEPT ![t] = s] : s \in {"open", "closed"} }
    /\ pc' = [pc EXCEPT ![t] = "done"]
    /\ result' = [result EXCEPT ![t] = Raised("Exception", m)]
    /\ status' = [status EXCEPT ![t] = 500]
    /\ response' = [response EXCEPT ![t] = [error |-> m]]
    /\ UNCHANGED <<env_vars, processes, req, call_id, room_name, platform_vars, bridge_vars>>

InboundBody == [phone_numbers |-> <<Number1>>]

NextFault ==
    \E t \in 1..MaxRequests :
        \/ \E id \in CallIds : make_outbound_call(t, CallBase, id)
        \/ create_room(t)
        \/ create_dispatch(t)
        \/ create_sip_participant(t)
        \/ create_inbound_trunk(t, InboundBody)
        \/ create_sip_inbound_trunk(t)
        \/ \E m \in RoomFaults :
              \/ LiveKitAPI_raises(t, "make_outbound_call", CallBase, m)
              \/ LiveKitAPI_raises(t, "create_inbound_trunk", InboundBody, m)
        \/ \E m1 \in RoomFaults, m \in RoomFaults : aclose_raises(t, m1, m)

FaultSpec == Init /\ [][NextFault]_vars

\* C13: every telephony-manager operation that was called ends by returning a
\* result envelope - a Failure carrying a message when a remote or transport step
\* faulted, the acquisition and the release of the client included - never by raising.
C13_AlwaysAnEnvelope ==
    \A t \in Threads :
        (pc[t] = "done" /\ status[t] # 400) =>
            /\ "success" \in DOMAIN result[t]
            /\ ~result[t].success => result[t].error # None

\* C14: a create-inbound-trunk request without numbers (absent or empty) is answered
\* with status 400 and no create_sip_inbound_trunk request is issued for it.
C14_InboundNeedsNumbers ==
    \A t \in Threads :
        (req[t].op = "create_inbound_trunk"
         /\ ("phone_numbers" \notin DOMAIN req[t].data
             \/ req[t].data.phone_numbers = <<>>)) =>
            /\ pc[t] = "done"
            /\ status[t] = 400
            /\ result[t] = NoResult
            /\ spy[t] = <<>>
            /\ lkapi[t] = "none"

\* Credentials are set and an inbound trunk with an empty list was rejected
C14_Witness ==
    /\ Configured
    /\ \E t \in Threads :
          /\ req[t].op = "create_inbound_trunk"
          /\ "phone_numbers" \in DOMAIN req[t].data
          /\ req[t].data.phone_numbers = <<>>
          /\ status[t] = 400

\* C15: a create-outbound-trunk request whose numbers are empty is answered with
\* status 400 and no create_sip_outbound_trunk request is issued for it.
C15_OutboundNeedsNumbers ==
    \A t \in Threads :
        (req[t].op = "create_outbound_trunk"
         /\ ("phone_numbers" \notin DOMAIN req[t].data
             \/ req[t].data.phone_numbers = <<>>)) =>
            /\ pc[t] = "done"
            /\ status[t] = 400
            /\ spy[t] = <<>>

\* C16: a delete of a trunk or dispatch rule that the platform answered with
\* "not found" ends with a NotFound failure and HTTP status 404.
C16_UnknownIdIs404 ==
    \A t \in Threads :
        (req[t].op \in {"delete_trunk", "delete_dispatch_rule"}
         /\ pc[t] = "done" /\ e[t] = <<"not found">>) =>
            /\ status[t] = 404
            /\ "kind" \in DOMAIN result[t]

\* the failure envelope of each operation, without its message
FailureShape(op) ==
    CASE op = "make_outbound_call" ->
            [success |-> FALSE, room_name |-> None, call_id |-> None]
      [] op \in {"create_inbound_trunk", "create_outbound_trunk"} ->
            [success |-> FALSE, trunk_id |-> None]
      [] op \in {"list_inbound_trunks", "list_outbound_trunks"} ->
            [success |-> FALSE, trunks |-> <<>>]
      [] op = "create_dispatch_rule" -> [success |-> FALSE, rule_id |-> None]
      [] op = "list_dispatch_rules" -> [success |-> FALSE, rules |-> <<>>]
      [] OTHER -> [success |-> FALSE]

\* C17: when the platform answered a request of an operation with a fault, the
\* operation has returned the failure envelope of that operation with exactly the
\* platform's message as its error, answered with status 500 and closed its client,
\* whatever the message was.
C17_FaultForwardedVerbatim ==
    \A t \in Threads :
        e[t] # None =>
            /\ pc[t] = "done"
            /\ result[t] = FailureShape(req[t].op) @@ [error |-> e[t]]
            /\ response[t] = result[t]
            /\ status[t] = 500
            /\ lkapi[t] = "closed"
            /\ inflight[t] = {}

\* Two requests of the same operation were answered with different fault messages
C17_Witness ==
    \E t, u \in Threads :
        /\ req[t].op = "create_inbound_trunk" /\ req[u].op = "create_inbound_trunk"
        /\ e[t] = <<"unavailable">> /\ result[t].error = <<"unavailable">>
        /\ e[u] = <<"not found">> /\ result[u].error = <<"not found">>

\* the rules the platform stored for the create-dispatch-rule request of thread t
RulesOf(t) ==
    { sip_rules[i] : i \in { j \in DOMAIN sip_rules :
                               sip_rules[j].sip_dispatch_rule_id = result[t].rule_id } }
RuleCreated(t) ==
    /\ req[t].op = "create_dispatch_rule"
    /\ pc[t] = "done"
    /\ result[t] # NoResult
    /\ result[t].success
NumbersOf(t) ==
    IF "phone_numbers" \in DOMAIN req[t].data THEN req[t].data.phone_numbers ELSE <<>>

\* C18: the display name of a rule created with more than two numbers ends with
\* "+{count-2} more"; with one or two numbers it ends with them, with none with "All".
C18_NameSaysHowManyMore ==
    \A t \in Threads :
        RuleCreated(t) =>
            \A r \in RulesOf(t) :
                LET n == Len(NumbersOf(t))
                    tail == IF n = 0 THEN <<"All">>
                            ELSE IF n = 1 THEN NumbersOf(t)[1]
                            ELSE NumbersOf(t)[1] \o <<", ">> \o NumbersOf(t)[2]
                                 \o (IF n > 2 THEN <<" +", Digits[n - 2], " more">>
                                     ELSE <<>>)
                IN  r.name = <<"Agent: ">> \o req[t].data.agent_name \o <<" -> ">> \o tail

\* C19: the room prefix of a created rule is "sip-", the first number without its
\* '+', '-' and space characters, and "__"; it is "sip-unknown__" for a rule created
\* without numbers, so all such rules have the same prefix.
C19_RoomPrefix ==
    \A t \in Threads :
        RuleCreated(t) =>
            \A r \in RulesOf(t) :
                r.rule.room_prefix =
                    IF NumbersOf(t) = <<>> THEN <<"sip-", "unknown", "__">>
                    ELSE <<"sip-">>
                         \o SelectSeq(NumbersOf(t)[1],
                                      LAMBDA c : c \notin {"+", "-", " "})
                         \o <<"__">>

\* The rule created for "+1 555-0100" has the prefix "sip-15550100__"
C19_Witness ==
    \E t \in Threads :
        /\ RuleCreated(t) /\ NumbersOf(t) = <<Number1>>
        /\ \E r \in RulesOf(t) : r.rule.room_prefix = <<"sip-", "1", "555", "0100", "__">>

\* both metadata records of a rule name the agent, the user, the organization and
\* the source marker
FullMetadata(md) ==
    /\ (\E k \in {"agent", "agent_name"} : k \in DOMAIN md)
    /\ "user_id" \in DOMAIN md
    /\ "org_id" \in DOMAIN md
    /\ "source" \in DOMAIN md
    /\ md.source = <<"inbound_call">>

\* C20: every dispatch rule on the platform carries, both in its own metadata and in
\* the metadata of its room configuration, the agent name, the user id, the
\* organization id and the marker source = "inbound_call".
C20_RuleMetadataComplete ==
    \A i \in DOMAIN sip_rules :
        /\ FullMetadata(sip_rules[i].metadata.json)
        /\ \A k \in DOMAIN sip_rules[i].room_config.agents :
              FullMetadata(sip_rules[i].room_config.agents[k].metadata.json)

Range(s) == { s[i] : i \in DOMAIN s }

\* C21: a successful create-inbound-trunk returns numbers that are, as a set, the
\* numbers of the request: none dropped, added or altered.
C21_InboundNumbersKept ==
    \A t \in Threads :
        (req[t].op = "create_inbound_trunk" /\ result[t] # NoResult /\ result[t].success) =>
            /\ Range(result[t].numbers) = Range(req[t].data.phone_numbers)
            /\ \E i \in DOMAIN sip_trunks :
                  /\ sip_trunks[i].sip_trunk_id = result[t].trunk_id
                  /\ sip_trunks[i].kind = "inbound"
                  /\ Range(sip_trunks[i].numbers) = Range(req[t].data.phone_numbers)

\* An inbound trunk with two numbers was created
C21_Witness ==
    \E t \in Threads :
        /\ req[t].op = "create_inbound_trunk" /\ result[t] # NoResult /\ result[t].success
        /\ Range(result[t].numbers) = {Number1, Number2}

\* the outbound call of thread t got past the credential gate
CallStarted(t) == IsCall(t) /\ call_id[t] # None

\* C22: every step of one outbound call refers to the same session: the room is
\* outbound-{call_id}, with -{agent_config_id} appended when one is supplied; the
\* room created, the agent binding and the participant all name that room; the
\* participant's identity is caller-{call_id}; a Success returns that room_name and
\* call_id.  This holds for each of the interleaved invocations.
C22_OneSessionPerCall ==
    \A t \in Threads :
        CallStarted(t) =>
            /\ room_name[t] =
                  <<"outbound-">> \o call_id[t]
                  \o (IF "agent_config_id" \in DOMAIN req[t].data
                         /\ req[t].data.agent_config_id # <<>>
                      THEN <<"-">> \o req[t].data.agent_config_id ELSE <<>>)
            /\ Recorded(t, "create_room", "ok") => room_name[t] \in rooms
            /\ Recorded(t, "create_dispatch", "ok") =>
                  \E d \in dispatches :
                      d.room = room_name[t] /\ d.agent_name = req[t].data.agent_name
            /\ Recorded(t, "create_sip_participant", "ok") =>
                  /\ \E p \in participants :
                        /\ p.room_name = room_name[t]
                        /\ p.participant_identity = <<"caller-">> \o call_id[t]
                        /\ p.participant_id = result[t].participant_id
                  /\ result[t].success
                  /\ result[t].room_name = room_name[t]
                  /\ result[t].call_id = call_id[t]

\* Two calls, one with an agent-config id, both succeeded in different rooms
C22_Witness ==
    \E t, u \in Threads :
        /\ CallStarted(t) /\ CallStarted(u)
        /\ "agent_config_id" \in DOMAIN req[t].data
        /\ "agent_config_id" \notin DOMAIN req[u].data
        /\ Recorded(t, "create_sip_participant", "ok")
        /\ Recorded(u, "create_sip_participant", "ok")
        /\ room_name[t] = <<"outbound-">> \o call_id[t] \o <<"-", "cfg7">>
        /\ room_name[u] = <<"outbound-">> \o call_id[u]

TelephonyOps ==
    {"list_inbound_trunks", "create_inbound_trunk", "list_outbound_trunks",
     "create_outbound_trunk", "delete_trunk", "list_dispatch_rules",
     "create_dispatch_rule", "delete_dispatch_rule", "make_outbound_call"}

\* C24: a telephony endpoint answers 2xx exactly when the manager operation returned
\* Success; a Failure is answered with status 500 and a body carrying its message; a
\* request rejected for its input is answered with status 400 and a message, without
\* a manager result.
C24_StatusFollowsResult ==
    \A t \in Threads :
        (req[t].op \in TelephonyOps /\ pc[t] = "done") =>
            /\ status[t] \in {200, 201, 400, 500}
            /\ status[t] \in {200, 201} <=> (result[t] # NoResult /\ result[t].success)
            /\ (result[t] # NoResult /\ ~result[t].success) =>
                  /\ status[t] = 500
                  /\ response[t].error = result[t].error
                  /\ result[t].error # None
            /\ result[t] = NoResult =>
                  /\ status[t] = 400
                  /\ response[t].error # None

\* One request was answered 201 and another 500 with the platform's message
C24_Witness ==
    \E t, u \in Threads :
        /\ req[t].op \in TelephonyOps /\ status[t] = 201 /\ result[t].success
        /\ req[u].op \in TelephonyOps /\ status[u] = 500
        /\ response[u].error = <<"unavailable">>

-----------------------------------------------------------------------------
\* Every telephony endpoint, with one request each (and a request without a body),
\* together with the endpoints routed through the bridge
NextService ==
    \E t \in 1..MaxRequests :
        \/ make_outbound_call(t, CallBase, LoadId(1))
        \/ create_room(t)
        \/ create_dispatch(t)
        \/ create_sip_participant(t)
        \/ \E data \in {<<>>, InboundBody} : create_inbound_trunk(t, data)
        \/ create_sip_inbound_trunk(t)
        \/ create_outbound_trunk(t, OutboundBase)
        \/ create_sip_outbound_trunk(t)
        \/ list_inbound_trunks(t)
        \/ list_sip_inbound_trunk(t)
        \/ list_outbound_trunks(t)
        \/ list_sip_outbound_trunk(t)
        \/ delete_trunk(t, ST0)
        \/ delete_sip_trunk(t)
        \/ create_dispatch_rule(t, [agent_name |-> <<"agent">>])
        \/ create_sip_dispatch_rule(t)
        \/ list_dispatch_rules(t)
        \/ list_sip_dispatch_rule(t)
        \/ delete_dispatch_rule(t, SDR1)
        \/ delete_sip_dispatch_rule(t)
        \/ get_livekit_config(t)
        \/ list_rooms(t)
        \/ get_room_participants(t, RoomName(LoadId(1), None))
        \/ _run(t)
        \/ LiveKitAPI_refuses(t)
        \/ test_livekit_connection_async(t)
        \/ list_livekit_rooms_async(t)
        \/ get_room_participants_async(t)
        \/ future_result(t)
        \/ future_timeout(t)

ServiceSpec == Init /\ [][NextService]_vars

\* C25: no step of a telephony operation or of a bridge-routed room operation
\* changes the endpoint, the key or the secret.
C25_CredentialsReadOnly ==
    [][ /\ livekit_url' = livekit_url
        /\ livekit_api_key' = livekit_api_key
        /\ livekit_api_secret' = livekit_api_secret ]_vars

\* A telephony operation and a bridge-routed operation have both completed with
\* the credentials still set
C25_Witness ==
    /\ Configured
    /\ \E t, u \in Threads :
          /\ req[t].op \in TelephonyOps /\ pc[t] = "done" /\ status[t] = 400
          /\ req[u].op = "list_rooms" /\ pc[u] = "done" /\ status[u] = 200

\* the platform's trunks of one kind, and an envelope's entries against them
PlatformTrunks(kind) == SelectSeq(sip_trunks, LAMBDA x : x.kind = kind)
SameTrunks(entries, items) ==
    /\ Len(entries) = Len(items)
    /\ \A i \in DOMAIN items :
          /\ entries[i].trunk_id = items[i].sip_trunk_id
          /\ entries[i].name = items[i].name
          /\ entries[i].numbers = items[i].numbers
SameRules(entries, items) ==
    /\ Len(entries) = Len(items)
    /\ \A i \in DOMAIN items :
          /\ entries[i].rule_id = items[i].sip_dispatch_rule_id
          /\ entries[i].name = items[i].name
          /\ entries[i].trunk_ids = items[i].trunk_ids
\* the list request of thread t is answered successfully in this step
ListAnswered(t, op) ==
    /\ req[t].op = op
    /\ pc[t] = "await" /\ pc'[t] = "done"
    /\ result'[t].success

\* C26: the step in which a list operation returns Success returns one entry per
\* item the platform holds at that moment, in the platform's order.
C26_ListsAsThePlatformReports ==
    [][ \A t \in Threads :
          /\ ListAnswered(t, "list_inbound_trunks") =>
                SameTrunks(result'[t].trunks, PlatformTrunks("inbound"))
          /\ ListAnswered(t, "list_outbound_trunks") =>
                SameTrunks(result'[t].trunks, PlatformTrunks("outbound"))
          /\ ListAnswered(t, "list_dispatch_rules") =>
                SameRules(result'[t].rules, sip_rules) ]_vars

\* A list of outbound trunks returned two trunks, the older one first
C26_Witness ==
    \E t \in Threads :
        /\ req[t].op = "list_outbound_trunks" /\ pc[t] = "done"
        /\ result[t].success
        /\ Len(result[t].trunks) = 2
        /\ result[t].trunks[1].trunk_id = ST0
        /\ result[t].trunks[2].trunk_id # ST0

\* the capabilities thread t invoked, in order
Invocations(t) == [i \in DOMAIN spy[t] |-> spy[t][i].cap]
Supplied(data, k) == k \in DOMAIN data /\ data[k] # <<>> /\ data[k] # None

\* C27: an outbound call requests an agent binding exactly when agent_name is
\* non-empty.  With an empty agent_name it goes from create_room straight to
\* create_sip_participant.  With a non-empty one it requests exactly one binding,
\* before the participant, and the binding registered carries exactly those of
\* agent_config_id and organization_id that were supplied.
C27_BindingOnlyWithAgentName ==
    \A t \in Threads :
        CallStarted(t) =>
            IF req[t].data.agent_name = <<>>
            THEN Invocations(t) \in {<<"create_room">>,
                                     <<"create_room", "create_sip_participant">>}
            ELSE /\ Invocations(t) \in
                       {<<"create_room">>, <<"create_room", "create_dispatch">>,
                        <<"create_room", "create_dispatch", "create_sip_participant">>}
                 /\ Recorded(t, "create_dispatch", "ok") =>
                       \E d \in dispatches :
                           /\ d.room = room_name[t]
                           /\ d.agent_name = req[t].data.agent_name
                           /\ IF Supplied(req[t].data, "agent_config_id")
                                 \/ Supplied(req[t].data, "organization_id")
                              THEN /\ DOMAIN d.metadata = {"json"}
                                   /\ DOMAIN d.metadata.json =
                                         { k \in {"agent_config_id", "organization_id"} :
                                             Supplied(req[t].data, k) }
                                   /\ \A k \in DOMAIN d.metadata.json :
                                         d.metadata.json[k] = req[t].data[k]
                              ELSE d.metadata = [text |-> <<>>]

\* One call without agent_name succeeded with two steps, another with agent_name
\* and both ids registered its binding
C27_Witness ==
    \E t, u \in Threads :
        /\ CallStarted(t) /\ req[t].data.agent_name = <<>>
        /\ result[t] # NoResult /\ result[t].success
        /\ Invocations(t) = <<"create_room", "create_sip_participant">>
        /\ CallStarted(u) /\ Supplied(req[u].data, "organization_id")
        /\ Recorded(u, "create_dispatch", "ok")

\* C28: the deadline of a bridge call runs from its submission: while the caller
\* waits, its Timeout can occur whether the work item is still queued or already
\* running; and the step in which one caller gets the Timeout changes nothing for
\* any other caller or work item.
C28_DeadlineFromSubmission ==
    /\ [](\A t \in Threads :
            (pc[t] = "waiting" /\ future[t] \in {"pending", "running"}) =>
                ENABLED future_timeout(t))
    /\ [][ \A t \in Threads :
             (pc[t] = "waiting" /\ pc'[t] = "done" /\ result'[t] = TimedOut) =>
                 \A u \in Threads \ {t} :
                     /\ pc'[u] = pc[u]
                     /\ result'[u] = result[u]
                     /\ status'[u] = status[u]
                     /\ future'[u] = future[u]
                     /\ outcome'[u] = outcome[u] ]_vars

\* With the pool saturated a caller got the Timeout while its work item was still queued
C28_Witness ==
    /\ Cardinality(Running) = PoolSize
    /\ \E t \in Threads :
          /\ pc[t] = "done" /\ result[t] = TimedOut
          /\ future[t] = "pending"
          /\ spy[t] = <<>>

-----------------------------------------------------------------------------
\* The bridge under fair scheduling: a free pool worker takes the work item at the
\* head of the queue, and an operation that executes is eventually answered
BridgeFairSpec ==
    /\ BridgeInit
    /\ [][NextBridge]_vars
    /\ \A t \in Threads : WF_vars(_run(t)) /\ WF_vars(list_livekit_rooms_async(t))

\* C29: a work item leaves the queue only by starting to run and stops running only
\* by finishing, and eventually every submitted work item has finished for good: each
\* one that queued behind a saturated pool was started, ran to its end and gave its
\* slot back, so no worker stays taken.
C29_QueuedEventuallyStarts ==
    /\ [][ \A t \in Threads :
              /\ (future[t] = "pending" /\ future'[t] # "pending") => future'[t] = "running"
              /\ (future[t] = "running" /\ future'[t] # "running") => future'[t] = "finished"
              /\ future[t] = "finished" => future'[t] = "finished" ]_vars
    /\ <>[](\A t \in Threads : future[t] \in {"none", "finished"})

\* The fifth submission, which had to queue, has run and finished, and the pool is free
C29_Witness ==
    /\ \A t \in Threads : future[t] = "finished"
    /\ Running = {}
    /\ \E t \in Threads : Recorded(t, "list_rooms", "ok") /\ t > PoolSize

\* C30: while the endpoint, the key or the secret is empty, no operation routed
\* through the bridge has built a client or invoked a remote capability.
C30_BridgeOpsGated ==
    (Falsy(livekit_url) \/ Falsy(livekit_api_key) \/ Falsy(livekit_api_secret)) =>
        \A t \in Threads :
            req[t].op \in {"get_livekit_config", "list_rooms", "get_room_participants"} =>
                /\ lkapi[t] = "none"
                /\ spy[t] = <<>>
                /\ inflight[t] = {}

\* The keys of a manager result that name a resource of the platform
ResourceFields ==
    {"trunk_id", "rule_id", "room_name", "call_id", "participant_id", "numbers",
     "trunks", "rules"}

\* C31: every result a telephony-manager operation returned carries a success flag
\* and an error field, success is true exactly when error is None, and a failure
\* carries the resource fields of its operation, all of them empty (None for
\* trunk_id, rule_id, room_name and call_id, the empty list for trunks and rules).
C31_UniformEnvelope ==
    \A t \in Threads :
        (req[t].op \in TelephonyOps /\ result[t] # NoResult) =>
            /\ {"success", "error"} \subseteq DOMAIN result[t]
            /\ result[t].success \in BOOLEAN
            /\ result[t].success <=> (result[t].error = None)
            /\ ~result[t].success =>
                  /\ DOMAIN result[t] = DOMAIN FailureShape(req[t].op) \cup {"error"}
                  /\ \A f \in DOMAIN FailureShape(req[t].op) :
                        result[t][f] = FailureShape(req[t].op)[f]
                  /\ \A f \in DOMAIN result[t] \cap ResourceFields : Falsy(result[t][f])

\* A call failed after its room was created and answers without room_name or
\* call_id, next to a list operation that failed on a fault of the platform
C31_Witness ==
    \E t, u \in Threads :
        /\ IsCall(t) /\ Recorded(t, "create_room", "ok")
        /\ result[t] # NoResult /\ ~result[t].success
        /\ room_name[t] # None /\ result[t].room_name = None
        /\ req[u].op = "list_inbound_trunks" /\ result[u] # NoResult
        /\ ~result[u].success /\ result[u].trunks = <<>> /\ e[u] # None

\* The capabilities the call of thread t has invoked, answered or not
InvokedBy(t) == { spy[t][i].cap : i \in DOMAIN spy[t] }
\* No other call has the room name of thread t
OwnRoom(t) == \A u \in Threads \ {t} : room_name[u] # room_name[t]

\* C32: an outbound call stops at its first failing step. When create_room failed,
\* neither create_dispatch nor create_sip_participant is ever invoked; when
\* create_dispatch failed, create_sip_participant is never invoked; the call has
\* ended with a failure and no participant was dialed into its room.
C32_StopsAtFirstFailure ==
    \A t \in Threads :
        IsCall(t) =>
            /\ Recorded(t, "create_room", "fault") =>
                  /\ InvokedBy(t) = {"create_room"}
                  /\ OwnRoom(t) => \A d \in dispatches : d.room # room_name[t]
            /\ (Recorded(t, "create_room", "fault")
                   \/ Recorded(t, "create_dispatch", "fault")) =>
                  /\ "create_sip_participant" \notin InvokedBy(t)
                  /\ pc[t] = "done" /\ inflight[t] = {}
                  /\ result[t] # NoResult /\ ~result[t].success
                  /\ OwnRoom(t) => \A p \in participants : p.room_name # room_name[t]

\* One call ended at a failed room creation, another at a failed agent binding in a
\* room that exists
C32_Witness ==
    \E t, u \in Threads :
        /\ IsCall(t) /\ Recorded(t, "create_room", "fault") /\ pc[t] = "done"
        /\ IsCall(u) /\ Recorded(u, "create_room", "ok")
        /\ Recorded(u, "create_dispatch", "fault") /\ pc[u] = "done"
        /\ room_name[u] \in rooms /\ OwnRoom(u)

\* The caller of thread t was answered with the Timeout
Abandoned(t) == pc[t] = "done" /\ result[t] = TimedOut
\* ... while its work item still waits in the executor's queue
Orphan(t) == Abandoned(t) /\ future[t] = "pending"

\* C33: a work item whose caller timed out while it was queued stays in the queue;
\* it leaves the queue only by being started by a worker, which then holds a pool
\* slot, opens a client and sends the remote request although the caller's answer
\* stays the Timeout; and under fair scheduling every such work item is started.
C33_AbandonedStillRuns ==
    /\ [](\A t \in Threads : Orphan(t) => \E i \in DOMAIN queue : queue[i] = t)
    /\ [][ \A t \in Threads :
              (Orphan(t) /\ future'[t] # "pending") =>
                  /\ future'[t] = "running"
                  /\ t \in Running' /\ Cardinality(Running') <= PoolSize
                  /\ lkapi'[t] = "open"
                  /\ inflight'[t] # {}
                  /\ Len(spy'[t]) = Len(spy[t]) + 1
                  /\ pc'[t] = "done" /\ result'[t] = TimedOut ]_vars
    /\ <>[](\A t \in Threads : ~Orphan(t))

\* A work item whose caller was told Timeout executes its remote request in a
\* saturated pool, and the work item of a caller that still waits queues behind it
C33_Witness ==
    /\ Cardinality(Running) = PoolSize
    /\ \E t \in Running :
          /\ Abandoned(t)
          /\ lkapi[t] = "open"
          /\ spy[t] = <<Invoked("list_rooms")>>
    /\ \E u \in Threads : pc[u] = "waiting" /\ future[u] = "pending"

-----------------------------------------------------------------------------
\* The agent endpoints, each request on a thread of its own
NextAgent ==
    \/ \E t \in 1..(MaxRequests + 1) :
          \/ \E agent_id \in AgentIds : start_agent(t, agent_id)
          \/ Popen(t)
          \/ \E agent_id \in AgentIds : stop_agent(t, agent_id)
    \/ \E dir \in AgentDirs : exits(dir)

AgentSpec == BridgeInit /\ [][NextAgent]_vars

\* C34: at any time at most one process of an agent's main.py is running, also when
\* start requests for the same agent are handled at the same time.
C34_OneProcessPerAgent ==
    \A dir \in AgentDirs : processes[dir] <= 1

====
